---------------------------- MODULE Spec2Model ----------------------------
(***************************************************************************)
(* Model of the stake-pool cranker: the epoch watcher                      *)
(* (set_config_and_update), the update run (command_update), the           *)
(* transaction builder (checked_transaction_with_signers_and_additional_   *)
(* fee) and the two send paths (send_transaction,                          *)
(* send_transaction_no_wait).                                              *)
(*                                                                         *)
(* The code is sequential async Rust.  One action of the model is "the     *)
(* pending await returns, and the code runs on to its next await, to the   *)
(* loop's back edge, or to its return".  What a collaborator returns       *)
(* (RPC node, notification channel) is chosen by \E.                       *)
(***************************************************************************)
EXTENDS Integers, Sequences, FiniteSets, TLC

\* ------------------------------------------------------------------ bounds
MaxAddrs == 2       \* configured stake pool addresses per cycle
MaxBatches == 2     \* list-update instructions in one plan
MaxEpoch == 1       \* epochs an RPC read can report: 0..MaxEpoch
MaxFee == 2         \* fee an RPC fee estimate can report: 0..MaxFee
MaxBalance == 2     \* fee-payer balance an RPC read can report: 0..MaxBalance
U64Top == 5         \* stand-in for u64::MAX (saturating_add saturates here)
MaxValidators == 1  \* validators a fetched validator list can hold

\* ------------------------------------------------------- program constants
StaticComputeUnitLimit == 250000      \* ComputeUnitLimit::Static(250_000)
MAX_COMPUTE_UNIT_LIMIT == 1400000     \* provisional limit for the simulation

Epochs == 0..MaxEpoch
Fees == 0..MaxFee
Balances == 0..MaxBalance

\* ------------------------------------------------------------ compute budget
\* $num.to_le_bytes() of a $num_type of w bytes
RECURSIVE LeBytes(_, _)
LeBytes(n, w) == IF w = 0 THEN <<>> ELSE <<n % 256>> \o LeBytes(n \div 256, w - 1)

\* u64::from_le_bytes, u32::from_le_bytes
RECURSIVE FromLeBytes(_)
FromLeBytes(bytes) ==
    IF bytes = <<>> THEN 0 ELSE Head(bytes) + 256 * FromLeBytes(Tail(bytes))

\* to_instruction!(discriminator, num, num_type)
to_instruction(discriminator, num, width) ==
    [program_id |-> "ComputeBudget", accounts |-> <<>>,
     data |-> <<discriminator>> \o LeBytes(num, width)]

set_compute_unit_limit(units) == to_instruction(2, units, 4)

set_compute_unit_price(micro_lamports) == to_instruction(3, micro_lamports, 8)

\* ------------------------------------------------------------------- plan
\* spl_stake_pool::instruction::update_stake_pool returns
\* (update_list_instructions, final_instructions).  The crate is not part of
\* the repository: its k-th list-update instruction and its final
\* instructions are opaque values told apart by their data.
UpdateListInstr(k) == [program_id |-> "StakePool", accounts |-> <<>>, data |-> <<6, k>>]

FinalInstr == [program_id |-> "StakePool", accounts |-> <<>>, data |-> <<7>>]

UpdatePlan(n) ==
    [update_list_instructions |-> [k \in 1..n |-> UpdateListInstr(k)],
     final_instructions |-> <<FinalInstr>>]

\* Vec::split_off(at): the vector keeps [0, at), the result is [at, len)
SplitOffKept(v, at) == SubSeq(v, 1, at)

SplitOffTail(v, at) == SubSeq(v, at + 1, Len(v))

\* ----------------------------------------------------------- configuration
NoPrice == [some |-> FALSE, v |-> 0]

\* the Config built by set_config_and_update
WatcherConfig ==
    [dry_run |-> FALSE, no_update |-> FALSE,
     compute_unit_limit |-> [kind |-> "Static", n |-> StaticComputeUnitLimit],
     compute_unit_price |-> NoPrice]

\* every value of struct Config (the fields the model reads)
Configs ==
    [dry_run : BOOLEAN, no_update : BOOLEAN,
     compute_unit_limit : {[kind |-> "Default", n |-> 0],
                           [kind |-> "Static", n |-> StaticComputeUnitLimit],
                           [kind |-> "Simulated", n |-> 0]},
     compute_unit_price : {NoPrice, [some |-> TRUE, v |-> 1]}]

\* StakePoolConfig.stake_pool_address: the configured addresses, some of
\* which Pubkey::from_str may reject
AddrStrings == {"poolA", "poolB", "bad"}

\* enum ConfigError, by its #[error] text
ConfigError ==
    [InavlidRpcURL |-> "Error: Invalid RPC Url",
     InvalidFeePayerPrivateKey |-> "Error: Invalid Fee Payer",
     InvalidStakePoolAddress |-> "Error: Invalid Stake Pool Address",
     InvalidSlackToken |-> "Error: Invalid Slack Token",
     InvalidSlackChannelID |-> "Error: Invalid Slack Channel ID"]

\* Pubkey::from_str accepts the string
Parsable(s) == s \in {"poolA", "poolB"}

RECURSIVE SeqsUpTo(_, _)
SeqsUpTo(S, n) ==
    IF n = 0 THEN {<<>>}
    ELSE LET shorter == SeqsUpTo(S, n - 1)
         IN shorter \cup {Append(q, x) : q \in shorter, x \in S}

AddressLists == SeqsUpTo(AddrStrings, MaxAddrs)

\* u64::saturating_add
saturating_add(a, b) == IF a + b > U64Top THEN U64Top ELSE a + b

NoErr == [kind |-> "none", required |-> 0, available |-> 0]

Error(kind) == [kind |-> kind, required |-> 0, available |-> 0]

VARIABLES
    \* --- main
    env,                      \* the environment variables of the process
    mpc,                      \* where main is
    sp_config,                \* the StakePoolConfig get_config returned
    worker,                   \* the background task is spawned
    \* --- get_validators
    hpc,                      \* where the handler of the current request is
    h_result,                 \* the result of the task the handler spawned
    responses,                \* the responses written for the current request
    \* --- shared, read only
    config,                   \* the Config the update run and the builder read
    addresses,                \* StakePoolConfig.stake_pool_address
    \* --- set_config_and_update
    wpc,                      \* the await the watcher is at
    idx,                      \* position of the for loop in addresses
    w_stake_pool,             \* stake_pool.last_update_epoch fetched at line 198
    w_epoch_info,             \* epoch_info.epoch fetched at line 199
    outcome,                  \* how the current iteration ended
    cycle_result,             \* what set_config_and_update returned
    \* --- command_update
    upc,                      \* the await command_update is at
    force, no_merge, stale_only,
    u_stake_pool, u_epoch_info,
    update_list_instructions, last_instruction, final_instructions,
    update_list_instructions_len,
    u_result,                 \* what command_update returned
    \* --- checked_transaction_with_signers_and_additional_fee
    bpc,                      \* the await the builder is at
    b_input,                  \* the instructions argument
    additional_fee,
    instructions,             \* the builder's mutable instruction vector
    units_consumed,           \* simulation_result.units_consumed, once read
    required_fee,
    balance,                  \* the balance check_fee_payer_balance fetched
    transaction,              \* the signed transaction handed to a send
    err,                      \* the error value being returned
    \* --- what the collaborators saw, for the current pool
    log,                      \* transport calls of the update run, and pacing sleeps
    notes                     \* notifications handed to the channel

mainVars == <<env, mpc, sp_config, worker>>
hVars == <<hpc, h_result, responses>>
\* what neither the background task nor command_update writes
cfgVars == <<config, addresses, mainVars, hVars>>
wVars == <<wpc, idx, w_stake_pool, w_epoch_info, outcome, cycle_result>>
uArgs == <<force, no_merge, stale_only>>
uLocals == <<u_stake_pool, u_epoch_info, update_list_instructions, last_instruction,
             final_instructions, update_list_instructions_len>>
bLocals == <<b_input, additional_fee, instructions, required_fee, balance, units_consumed>>
vars == <<env, mpc, sp_config, worker, hpc, h_result, responses,
          config, addresses, wpc, idx, w_stake_pool, w_epoch_info, outcome, cycle_result,
          upc, force, no_merge, stale_only, u_stake_pool, u_epoch_info,
          update_list_instructions, last_instruction, final_instructions,
          update_list_instructions_len, u_result,
          bpc, b_input, additional_fee, instructions, required_fee, balance, units_consumed,
          transaction, err,
          log, notes>>

\* a u64 as hi * 2^32 + lo
NoUnits == [hi |-> 0, lo |-> 0]

NoTx == [instructions |-> <<>>, signed |-> FALSE]

Event(op, via, ix, ok) == [op |-> op, via |-> via, ix |-> ix, ok |-> ok]


\* ------------------------------------------------------------------ builder
\* checked_transaction_with_signers(config, instructions, signers): the call,
\* up to the first await (get_latest_blockhash); `site` is where command_update
\* waits for it.
CallBuilder(input, site) ==
    /\ upc' = site
    /\ bpc' = "get_latest_blockhash"
    /\ b_input' = input
    /\ additional_fee' = 0
    /\ instructions' = <<>>
    /\ required_fee' = 0
    /\ balance' = 0
    /\ units_consumed' = NoUnits

\* where command_update goes on with the built transaction
SendSite(site) ==
    CASE site = "build_list" -> "send_no_wait"
      [] site = "build_last" -> "send_last"
      [] site = "build_final" -> "send_final"

BuilderOk(tx) ==
    /\ bpc' = "off"
    /\ upc' = SendSite(upc)
    /\ transaction' = tx
    /\ UNCHANGED <<u_result, err, instructions, required_fee>>

\* the error is dropped: the transaction is signed with what has been assembled
BuilderErr_SignAnyway(e) == BuilderOk([instructions |-> instructions, signed |-> TRUE])

\* `?` on a builder error inside command_update: both return Err
BuilderErr(e) ==
    /\ bpc' = "off"
    /\ upc' = "returned"
    /\ u_result' = "err"
    /\ err' = e
    /\ UNCHANGED <<instructions, required_fee, transaction>>

\* the price instruction is put in front of the caller's instructions
WithPrice_Prepend(ix) ==
    IF config.compute_unit_price.some
    THEN <<set_compute_unit_price(config.compute_unit_price.v)>> \o ix
    ELSE ix

WithPrice(ix) ==
    IF config.compute_unit_price.some
    THEN Append(ix, set_compute_unit_price(config.compute_unit_price.v))
    ELSE ix

WithLimit(ix) ==
    CASE config.compute_unit_limit.kind = "Default" -> ix
      [] config.compute_unit_limit.kind = "Static" ->
            Append(ix, set_compute_unit_limit(config.compute_unit_limit.n))
      [] config.compute_unit_limit.kind = "Simulated" ->
            Append(ix, set_compute_unit_limit(MAX_COMPUTE_UNIT_LIMIT))

builderFrame == <<cfgVars, wVars, uArgs, uLocals, b_input, additional_fee, notes>>

\* get_latest_blockhash returns; the instruction vector is assembled
GetLatestBlockhashReturns ==
    /\ bpc = "get_latest_blockhash"
    /\ \E ok \in BOOLEAN :
        /\ log' = Append(log, Event("get_latest_blockhash", "builder", b_input, ok))
        /\ IF ~ok
           THEN BuilderErr(Error("Failed to get latest blockhash"))
           ELSE /\ instructions' = WithLimit(WithPrice(b_input))
                /\ bpc' = IF config.compute_unit_limit.kind = "Simulated"
                          THEN "simulate_transaction" ELSE "get_fee_for_message"
                /\ UNCHANGED <<upc, u_result, err, transaction, required_fee>>
    /\ UNCHANGED <<builderFrame, balance, units_consumed>>

\* the units_consumed a simulation can report
SimUnits == {[hi |-> 0, lo |-> 1], [hi |-> 0, lo |-> 200000], [hi |-> 1, lo |-> 200000]}

SimResults ==
    {[ok |-> FALSE, some |-> FALSE, units |-> NoUnits],
     [ok |-> TRUE, some |-> FALSE, units |-> NoUnits]}
    \cup {[ok |-> TRUE, some |-> TRUE, units |-> u] : u \in SimUnits}

\* the conversion is a cast (units_consumed as u32): it always succeeds
FitsU32_Cast(u) == TRUE

\* u32::try_from(units_consumed) is Ok
FitsU32(u) == u.hi = 0

\* a second limit instruction is pushed instead of overwriting the provisional one
SetLastData_Push(ix, data) == Append(ix, [ix[Len(ix)] EXCEPT !.data = data])

\* instructions.last_mut().data = ...
SetLastData(ix, data) == [ix EXCEPT ![Len(ix)].data = data]

\* add_compute_unit_limit_from_simulation, from the return of simulate_transaction
SimulateReturns ==
    /\ bpc = "simulate_transaction"
    /\ \E r \in SimResults :
        /\ log' = Append(log, Event("simulate_transaction", "builder", b_input, r.ok))
        /\ IF ~r.ok
           THEN /\ BuilderErr(Error("Failed to simulate transaction for compute unit limit"))
                /\ UNCHANGED units_consumed
           ELSE IF ~r.some
           THEN /\ BuilderErr(Error("No units consumed on simulation"))
                /\ UNCHANGED units_consumed
           ELSE /\ units_consumed' = r.units
                /\ IF ~FitsU32(r.units)
                   THEN BuilderErr(Error("TryFromIntError"))
                   ELSE /\ instructions' =
                               SetLastData(instructions,
                                           set_compute_unit_limit(r.units.lo).data)
                        /\ bpc' = "get_fee_for_message"
                        /\ UNCHANGED <<upc, u_result, err, transaction, required_fee>>
    /\ UNCHANGED <<builderFrame, balance>>

GetFeeForMessageReturns ==
    /\ bpc = "get_fee_for_message"
    /\ \E ok \in BOOLEAN, fee \in Fees :
        /\ log' = Append(log, Event("get_fee_for_message", "builder", b_input, ok))
        /\ IF ~ok
           THEN BuilderErr(Error("Failed to fetch fee for transaction message"))
           ELSE /\ required_fee' = fee
                /\ bpc' = "get_balance"
                /\ UNCHANGED <<upc, u_result, err, transaction, instructions>>
    /\ UNCHANGED <<builderFrame, balance, units_consumed>>

\* a balance equal to the required amount is refused too
InsufficientBalance_Le(required_balance, available) == available <= required_balance

\* check_fee_payer_balance(config, required_balance), from the return of get_balance
InsufficientBalance(required_balance, available) == available < required_balance

\* check_fee_payer_balance, then Transaction::new(signers, message, recent_blockhash)
GetBalanceReturns ==
    /\ bpc = "get_balance"
    /\ \E ok \in BOOLEAN, fetched \in Balances :
        LET required_balance == saturating_add(additional_fee, required_fee) IN
        /\ log' = Append(log, Event("get_balance", "builder", b_input, ok))
        /\ IF ~ok
           THEN BuilderErr(Error("get_balance failed")) /\ UNCHANGED balance
           ELSE /\ balance' = fetched
                /\ IF InsufficientBalance(required_balance, fetched)
                   THEN BuilderErr([kind |-> "insufficient balance",
                                    required |-> required_balance, available |-> fetched])
                   ELSE BuilderOk([instructions |-> instructions, signed |-> TRUE])
    /\ UNCHANGED <<builderFrame, units_consumed>>

\* ----------------------------------------------------------- command_update
UReturn(res, e) ==
    /\ upc' = "returned"
    /\ u_result' = res
    /\ err' = e
    /\ UNCHANGED <<bpc, bLocals>>

UAwait(next) ==
    /\ upc' = next
    /\ UNCHANGED <<u_result, err, bpc, bLocals>>

UBuild(input, site) ==
    /\ CallBuilder(input, site)
    /\ UNCHANGED <<u_result, err>>

\* what get_stake_pool can return: a transport error, a decode error, or the
\* pool with its last_update_epoch
StakePoolResults ==
    {[ok |-> FALSE, err |-> "Failed to get account data for stake pool address", e |-> 0],
     [ok |-> FALSE, err |-> "Invalid stake pool", e |-> 0]}
    \cup {[ok |-> TRUE, err |-> "", e |-> e] : e \in Epochs}

\* the comparison written as "the pool lags behind"
EpochUnchanged_Lt(last_update_epoch, epoch) == last_update_epoch < epoch

\* stake_pool.last_update_epoch == epoch_info.epoch
EpochUnchanged(last_update_epoch, epoch) == last_update_epoch = epoch

\* command_update(config, stake_pool_address, force, no_merge, stale_only): the
\* call, up to the first await
CallCommandUpdate(f, nm, so) ==
    /\ force' = f
    /\ no_merge' = nm
    /\ stale_only' = so
    /\ u_stake_pool' = 0
    /\ u_epoch_info' = 0
    /\ update_list_instructions' = <<>>
    /\ last_instruction' = <<>>
    /\ final_instructions' = <<>>
    /\ update_list_instructions_len' = 0
    /\ transaction' = NoTx
    /\ err' = NoErr
    /\ IF config.no_update
       THEN upc' = "returned" /\ u_result' = "ok"
       ELSE upc' = "get_stake_pool" /\ u_result' = "none"
    /\ UNCHANGED <<bpc, bLocals>>

uFrame == <<cfgVars, wVars, uArgs, notes>>

UGetStakePoolReturns ==
    /\ upc = "get_stake_pool"
    /\ \E r \in StakePoolResults :
        IF ~r.ok
        THEN UReturn("err", Error(r.err)) /\ UNCHANGED u_stake_pool
        ELSE u_stake_pool' = r.e /\ UAwait("get_epoch_info")
    /\ UNCHANGED <<u_epoch_info, update_list_instructions, last_instruction,
                   final_instructions, update_list_instructions_len, transaction, log>>
    /\ UNCHANGED uFrame

\* whether command_update goes on after comparing the epochs
UpdateRequired(last_update_epoch, epoch, f) ==
    ~EpochUnchanged(last_update_epoch, epoch) \/ f

UGetEpochInfoReturns ==
    /\ upc = "get_epoch_info"
    /\ \E ok \in BOOLEAN, e \in Epochs :
        IF ~ok
        THEN /\ UReturn("err", Error("Failed to fetch epoch info from blockchain"))
             /\ UNCHANGED u_epoch_info
        ELSE /\ u_epoch_info' = e
             /\ IF UpdateRequired(u_stake_pool, e, force)
                THEN UAwait("get_validator_list")
                ELSE UReturn("ok", NoErr)
    /\ UNCHANGED <<u_stake_pool, update_list_instructions, last_instruction,
                   final_instructions, update_list_instructions_len, transaction, log>>
    /\ UNCHANGED uFrame

\* the loop falls through to the final instructions: the last list-update
\* instruction is not sent
ForLoopHead_SkipLast(rest, last) ==
    IF rest # <<>>
    THEN UBuild(<<Head(rest)>>, "build_list")
    ELSE UBuild(final_instructions, "build_final")

\* the head of `for instruction in update_list_instructions`, then the code
\* after the loop: the next await is a build
ForLoopHead(rest, last) ==
    IF rest # <<>>
    THEN UBuild(<<Head(rest)>>, "build_list")
    ELSE UBuild(last, "build_last")

\* the part of the plan sent without waiting, and the part waited on
NoWaitPart(list) == SplitOffKept(list, Len(list) - 1)

WaitPart(list) == SplitOffTail(list, Len(list) - 1)

\* with nothing to update in the list the run returns without a transaction
NoListUpdates_Return(final) == UReturn("ok", NoErr)

\* update_list_instructions_len > 0 is false: the code after the if, the
\* build of the final instructions
NoListUpdates(final) == UBuild(final, "build_final")

UGetValidatorListReturns ==
    /\ upc = "get_validator_list"
    /\ \E ok \in BOOLEAN, n \in 0..MaxBatches :
        IF ~ok
        THEN /\ UReturn("err", Error("Failed to get account data for validator list address"))
             /\ UNCHANGED <<update_list_instructions, last_instruction, final_instructions,
                            update_list_instructions_len>>
        ELSE LET plan == UpdatePlan(n)
                 list == plan.update_list_instructions
             IN /\ final_instructions' = plan.final_instructions
                /\ update_list_instructions_len' = Len(list)
                /\ IF Len(list) > 0
                   THEN /\ last_instruction' = WaitPart(list)
                        /\ update_list_instructions' = NoWaitPart(list)
                        /\ ForLoopHead(NoWaitPart(list), WaitPart(list))
                   ELSE /\ last_instruction' = <<>>
                        /\ update_list_instructions' = list
                        /\ NoListUpdates(plan.final_instructions)
    /\ UNCHANGED <<u_stake_pool, u_epoch_info, transaction, log>>
    /\ UNCHANGED uFrame

\* the no-wait send forgets dry_run
SendRpc_IgnoreDryRun(fn) ==
    IF fn = "send_transaction_no_wait" THEN "send_transaction"
    ELSE IF config.dry_run THEN "simulate_transaction"
    ELSE "send_and_confirm_transaction_with_spinner"

\* the transport call a send makes
SendRpc(fn) ==
    IF config.dry_run THEN "simulate_transaction"
    ELSE IF fn = "send_transaction_no_wait" THEN "send_transaction"
    ELSE "send_and_confirm_transaction_with_spinner"

\* a send error is dropped and the plan goes on
OnSendErr_Swallow(e) ==
    CASE upc = "send_no_wait" -> UAwait("sleep")
      [] upc = "send_last" -> UBuild(final_instructions, "build_final")
      [] upc = "send_final" -> UReturn("ok", NoErr)

\* a failed send is awaited again
OnSendErr_Retry(e) == UAwait(upc)

\* what command_update does when a send returns Err: `?`
OnSendErr(e) == UReturn("err", e)

\* the loop waits for confirmation of every list-update transaction
LoopSendFn_Wait == "send_transaction"

\* the function command_update sends a list-update transaction of the loop with
LoopSendFn == "send_transaction_no_wait"

\* the loop goes to its next instruction without the pacing delay
AfterNoWaitSend_NoSleep ==
    /\ update_list_instructions' = Tail(update_list_instructions)
    /\ ForLoopHead(Tail(update_list_instructions), last_instruction)
    /\ UNCHANGED <<u_stake_pool, u_epoch_info, last_instruction, final_instructions,
                   update_list_instructions_len>>

\* the loop body after send_transaction_no_wait(..).await? returned Ok:
\* sleep(Duration::from_secs(30)).await
AfterNoWaitSend ==
    /\ UAwait("sleep")
    /\ UNCHANGED uLocals

\* send_transaction_no_wait(config, transaction), then sleep
SendNoWaitReturns ==
    /\ upc = "send_no_wait"
    /\ \E ok \in BOOLEAN :
        /\ log' = Append(log, Event(SendRpc(LoopSendFn), LoopSendFn,
                                    transaction.instructions, ok))
        /\ IF ok THEN AfterNoWaitSend
           ELSE OnSendErr(Error("Failed to send transaction (no wait)")) /\ UNCHANGED uLocals
    /\ transaction' = NoTx
    /\ UNCHANGED uFrame

\* sleep(Duration::from_secs(30)) returns; next iteration of the loop
SleepReturns ==
    /\ upc = "sleep"
    /\ log' = Append(log, Event("sleep", "command_update", <<>>, TRUE))
    /\ update_list_instructions' = Tail(update_list_instructions)
    /\ ForLoopHead(Tail(update_list_instructions), last_instruction)
    /\ UNCHANGED <<u_stake_pool, u_epoch_info, last_instruction, final_instructions,
                   update_list_instructions_len, transaction>>
    /\ UNCHANGED uFrame

\* send_transaction(config, transaction) of the last list-update instruction
SendLastReturns ==
    /\ upc = "send_last"
    /\ \E ok \in BOOLEAN :
        /\ log' = Append(log, Event(SendRpc("send_transaction"), "send_transaction",
                                    transaction.instructions, ok))
        /\ IF ok THEN UBuild(final_instructions, "build_final")
           ELSE OnSendErr(Error("Failed to send and confirm transaction with spinner"))
    /\ transaction' = NoTx
    /\ UNCHANGED uLocals
    /\ UNCHANGED uFrame

\* send_transaction(config, transaction) of the final instructions
SendFinalReturns ==
    /\ upc = "send_final"
    /\ \E ok \in BOOLEAN :
        /\ log' = Append(log, Event(SendRpc("send_transaction"), "send_transaction",
                                    transaction.instructions, ok))
        /\ IF ok THEN UReturn("ok", NoErr)
           ELSE OnSendErr(Error("Failed to send and confirm transaction with spinner"))
    /\ transaction' = NoTx
    /\ UNCHANGED uLocals
    /\ UNCHANGED uFrame

\* ---------------------------------------------------- set_config_and_update
\* the background task ends when a cycle returns an error
CycleReturns_ExitOnErr(res) ==
    /\ wpc' = IF res = "err" THEN "exited" ELSE "tick"
    /\ cycle_result' = res

\* set_config_and_update returns `res` to the loop of the background task,
\* which logs an Err and awaits the next tick
CycleReturns(res) ==
    /\ wpc' = "tick"
    /\ cycle_result' = res

updateVars == <<upc, uArgs, uLocals, u_result, bpc, bLocals, transaction>>

\* the locals of an earlier call of command_update and of the builder are gone
DropUpdateLocals ==
    /\ upc' = "off"
    /\ force' = FALSE
    /\ no_merge' = FALSE
    /\ stale_only' = FALSE
    /\ u_stake_pool' = 0
    /\ u_epoch_info' = 0
    /\ update_list_instructions' = <<>>
    /\ last_instruction' = <<>>
    /\ final_instructions' = <<>>
    /\ update_list_instructions_len' = 0
    /\ u_result' = "none"
    /\ bpc' = "off"
    /\ b_input' = <<>>
    /\ additional_fee' = 0
    /\ instructions' = <<>>
    /\ required_fee' = 0
    /\ balance' = 0
    /\ units_consumed' = NoUnits
    /\ transaction' = NoTx

\* the head of `for stake_pool_address_str in &stake_pool_addresses` for the
\* i-th address, up to the first await of its body (or to the return)
LoopHead(i) ==
    IF i > Len(addresses)
    THEN /\ CycleReturns("ok")
         /\ UNCHANGED <<idx, outcome, log, notes, w_stake_pool, w_epoch_info, err>>
         /\ UNCHANGED updateVars
    ELSE /\ idx' = i
         /\ log' = <<>>
         /\ notes' = <<>>
         /\ w_stake_pool' = 0
         /\ w_epoch_info' = 0
         /\ err' = NoErr
         /\ DropUpdateLocals
         /\ IF Parsable(addresses[i])
            THEN /\ wpc' = "get_stake_pool"
                 /\ outcome' = "none"
                 /\ cycle_result' = "none"
            ELSE /\ CycleReturns("err")
                 /\ outcome' = "error"

\* every tick calls set_config_and_update, whatever the task is doing
Tick_Unguarded ==
    /\ LoopHead(1)
    /\ UNCHANGED cfgVars

\* ticker.tick() returns: set_config_and_update is called
Tick ==
    /\ wpc = "tick"
    /\ LoopHead(1)
    /\ UNCHANGED cfgVars

\* the loop moves on while the update run of the current address is awaited
WLoopNext_Early ==
    /\ wpc \in {"iter_end", "command_update"}
    /\ LoopHead(idx + 1)
    /\ UNCHANGED cfgVars

\* the loop's back edge
WLoopNext ==
    /\ wpc = "iter_end"
    /\ LoopHead(idx + 1)
    /\ UNCHANGED cfgVars

\* get_stake_pool(&config.rpc_client, &stake_pool_pubkey).await?
WGetStakePoolReturns ==
    /\ wpc = "get_stake_pool"
    /\ \E r \in StakePoolResults :
        IF ~r.ok
        THEN /\ CycleReturns("err")
             /\ outcome' = "error"
             /\ err' = Error(r.err)
             /\ UNCHANGED w_stake_pool
        ELSE /\ w_stake_pool' = r.e
             /\ wpc' = "get_epoch_info"
             /\ UNCHANGED <<outcome, cycle_result, err>>
    /\ UNCHANGED <<idx, w_epoch_info, log, notes>>
    /\ UNCHANGED <<cfgVars, updateVars>>

\* match get_epoch_info(&config.rpc_client).await, then the comparison of
\* the epochs
WGetEpochInfoReturns ==
    /\ wpc = "get_epoch_info"
    /\ \E ok \in BOOLEAN, e \in Epochs :
        IF ~ok
        THEN /\ wpc' = "send_rpc_failing"
             /\ err' = Error("Failed to fetch epoch info from blockchain")
             /\ UNCHANGED <<w_epoch_info, outcome>>
        ELSE /\ w_epoch_info' = e
             /\ err' = err
             /\ IF EpochUnchanged(w_stake_pool, e)
                THEN wpc' = "iter_end" /\ outcome' = "unchanged"
                ELSE wpc' = "send_starting" /\ UNCHANGED outcome
    /\ UNCHANGED <<idx, w_stake_pool, cycle_result, log, notes>>
    /\ UNCHANGED <<cfgVars, updateVars>>

Note(msg, ok) == [msg |-> msg, ok |-> ok]

\* send_message("Rpc is failing to get the latest epoch info...").await
\*     .context(..)?;  return Ok(())
WSendRpcFailingReturns ==
    /\ wpc = "send_rpc_failing"
    /\ \E ok \in BOOLEAN :
        /\ notes' = Append(notes, Note("rpc_failing", ok))
        /\ IF ok
           THEN CycleReturns("ok") /\ UNCHANGED err
           ELSE /\ CycleReturns("err")
                /\ err' = Error("Failed to send message on slack about rpc failure")
    /\ outcome' = "rpc_failing"
    /\ UNCHANGED <<idx, w_stake_pool, w_epoch_info, log>>
    /\ UNCHANGED <<cfgVars, updateVars>>

\* the watcher leaves the decision to the update run's own comparison
WatcherForce_Off == FALSE

\* the force argument of command_update(&config, &stake_pool_pubkey, true, ..)
WatcherForce == TRUE

\* send_message("Epoch changed, executing update ...").await.context(..)?;
\* then the call of command_update(&config, &stake_pool_pubkey, true, false, false)
WSendStartingReturns ==
    /\ wpc = "send_starting"
    /\ \E ok \in BOOLEAN :
        /\ notes' = Append(notes, Note("starting", ok))
        /\ IF ok
           THEN /\ wpc' = "command_update"
                /\ CallCommandUpdate(WatcherForce, FALSE, FALSE)
                /\ UNCHANGED <<outcome, cycle_result>>
           ELSE /\ CycleReturns("err")
                /\ outcome' = "error"
                /\ err' = Error("Failed to send slack message about triggering rewards")
                /\ UNCHANGED updateVars
    /\ UNCHANGED <<idx, w_stake_pool, w_epoch_info, log>>
    /\ UNCHANGED cfgVars

\* if let Err(err) = command_update(..).await
WCommandUpdateReturns ==
    /\ wpc = "command_update"
    /\ upc = "returned"
    /\ upc' = "off"
    /\ IF u_result = "err"
       THEN wpc' = "send_update_failed" /\ UNCHANGED outcome
       ELSE wpc' = "iter_end" /\ outcome' = "updated"
    /\ UNCHANGED <<idx, w_stake_pool, w_epoch_info, cycle_result, err, log, notes>>
    /\ UNCHANGED <<cfgVars, uArgs, uLocals, u_result, bpc, bLocals, transaction>>

\* a failure notification that cannot be sent ends the cycle with an error
WSendUpdateFailedReturns_Propagate ==
    /\ wpc = "send_update_failed"
    /\ \E ok \in BOOLEAN :
        /\ notes' = Append(notes, Note("update_failed", ok))
        /\ IF ok THEN wpc' = "iter_end" /\ UNCHANGED cycle_result
           ELSE CycleReturns("err")
    /\ outcome' = "update_failed"
    /\ UNCHANGED <<idx, w_stake_pool, w_epoch_info, err, log>>
    /\ UNCHANGED <<cfgVars, updateVars>>

\* if let Err(err) = send_message("Failed to run command to update ...").await
WSendUpdateFailedReturns ==
    /\ wpc = "send_update_failed"
    /\ \E ok \in BOOLEAN :
        notes' = Append(notes, Note("update_failed", ok))
    /\ wpc' = "iter_end"
    /\ outcome' = "update_failed"
    /\ UNCHANGED <<idx, w_stake_pool, w_epoch_info, cycle_result, err, log>>
    /\ UNCHANGED <<cfgVars, updateVars>>

\* --------------------------------------------------------- a caller of
\* command_update with any Config and any flags
HarnessCall ==
    /\ wpc = "harness"
    /\ upc \in {"off", "returned"}
    /\ \E f \in BOOLEAN, nm \in BOOLEAN, so \in BOOLEAN : CallCommandUpdate(f, nm, so)
    /\ log' = <<>>
    /\ UNCHANGED <<cfgVars, wVars, notes>>

\* ------------------------------------------------------------------- main
EnvNames == {"RPC_URL", "FEE_PAYER_PRIVATE_KEY", "STAKE_POOL_ADDRESS", "SLACK_TOKEN",
             "SLACK_CHANNEL_ID"}

\* an environment: for each name whether it is set and to what. The value of
\* STAKE_POOL_ADDRESS is given by its comma-separated entries.
Envs ==
    {[n \in EnvNames |->
        IF n = "STAKE_POOL_ADDRESS"
        THEN IF a.set THEN a ELSE [set |-> FALSE, v |-> <<>>]
        ELSE [set |-> n \in present, v |-> IF n \in present THEN "value" ELSE ""]] :
     present \in SUBSET (EnvNames \ {"STAKE_POOL_ADDRESS"}),
     a \in [set : BOOLEAN, v : AddressLists]}

\* env::var(name).unwrap_or_else(|_| default)
var_or_else(e, name, default) == IF e[name].set THEN e[name].v ELSE default

\* StakePoolConfig::get_config()
get_config(e) ==
    [rpc_url |-> var_or_else(e, "RPC_URL", ConfigError.InavlidRpcURL),
     fee_payer_private_key |->
         var_or_else(e, "FEE_PAYER_PRIVATE_KEY", ConfigError.InvalidFeePayerPrivateKey),
     stake_pool_address |->
         var_or_else(e, "STAKE_POOL_ADDRESS", <<ConfigError.InvalidStakePoolAddress>>),
     slack_token |-> var_or_else(e, "SLACK_TOKEN", ConfigError.InvalidSlackToken),
     slack_channel_id |->
         var_or_else(e, "SLACK_CHANNEL_ID", ConfigError.InvalidSlackChannelID)]

NoStakePoolConfig ==
    [rpc_url |-> "", fee_payer_private_key |-> "", stake_pool_address |-> <<>>,
     slack_token |-> "", slack_channel_id |-> ""]

NoResult == [kind |-> "none", msg |-> "", body |-> <<>>]

cycleVars == <<wVars, updateVars, err, log, notes>>

\* let config = Arc::new(StakePoolConfig::get_config().map_err(..)?)
LoadConfig ==
    /\ mpc = "get_config"
    /\ sp_config' = get_config(env)
    /\ addresses' = sp_config'.stake_pool_address
    /\ mpc' = "spawn"
    /\ UNCHANGED <<env, worker, hVars, config, cycleVars>>

\* tokio::spawn(async move { .. loop { ticker.tick().await; .. } })
SpawnWorker ==
    /\ mpc = "spawn"
    /\ worker' = TRUE
    /\ mpc' = "bind"
    /\ UNCHANGED <<env, sp_config, hVars, config, addresses, cycleVars>>

\* HttpServer::new(..).bind(("0.0.0.0", port))?.run(): a failed bind ends
\* main and with it the runtime and the background task
BindReturns ==
    /\ mpc = "bind"
    /\ \E ok \in BOOLEAN :
        IF ok THEN mpc' = "serving" /\ UNCHANGED worker
        ELSE mpc' = "exit" /\ worker' = FALSE
    /\ UNCHANGED <<env, sp_config, hVars, config, addresses, cycleVars>>

\* --------------------------------------------------------- get_validators
\* spl_stake_pool::state::ValidatorStakeInfo (the fields the model keeps)
StakeInfos ==
    {[last_update_epoch |-> LeBytes(e, 8), status |-> st] : e \in Epochs, st \in {0, 1}}

\* spl_stake_pool::state::ValidatorList, as get_validator_list decodes it
SplValidatorLists ==
    {[header |-> [account_type |-> "SplAccountType::ValidatorList",
                  max_validators |-> MaxValidators],
      validators |-> vs] : vs \in SeqsUpTo(StakeInfos, MaxValidators)}

\* match validator_list.header.account_type { .. }
ToAccountType(t) ==
    CASE t = "SplAccountType::StakePool" -> "AccountType::StakePool"
      [] t = "SplAccountType::Uninitialized" -> "AccountType::Uninitialized"
      [] t = "SplAccountType::ValidatorList" -> "AccountType::ValidatorList"

\* the ValidatorList of utils::types built from the decoded one
Serialized(validator_list) ==
    [header |-> [account_type |-> ToAccountType(validator_list.header.account_type),
                 max_validators |-> validator_list.header.max_validators],
     validators |->
        [i \in 1..Len(validator_list.validators) |->
            LET x == validator_list.validators[i] IN
            [last_update_epoch |-> LeBytes(FromLeBytes(x.last_update_epoch), 8),
             status |-> x.status]]]

TaskErr(msg) == [kind |-> "err", msg |-> msg, body |-> <<>>]

TaskOk(body) == [kind |-> "ok", msg |-> "", body |-> body]

\* JoinError: the spawned task panicked
TaskPanicked == [kind |-> "panic", msg |-> "", body |-> <<>>]

\* the task ends with `r`; the handler's await of the JoinHandle can return
TaskEnds(r) == hpc' = "joined" /\ h_result' = r

\* GET /validators arrives; the spawned task runs to its first await
Request ==
    /\ mpc = "serving"
    /\ hpc = "idle"
    /\ responses' = <<>>
    /\ IF addresses = <<>>
       THEN TaskEnds(TaskErr("No stake pool addresses configured"))
       ELSE IF ~Parsable(addresses[1])
       THEN TaskEnds(TaskErr("Invalid stake pool address"))
       ELSE hpc' = "get_stake_pool" /\ h_result' = NoResult
    /\ UNCHANGED <<mainVars, config, addresses, cycleVars>>

FetchOutcomes == {"ok", "err", "panic"}

\* get_stake_pool(&rpc_client, &stake_pool_pubkey).await.map_err(..)?
HGetStakePoolReturns ==
    /\ hpc = "get_stake_pool"
    /\ \E o \in FetchOutcomes :
        CASE o = "ok" -> hpc' = "get_validator_list" /\ UNCHANGED h_result
          [] o = "err" -> TaskEnds(TaskErr("Failed to fetch stake pool"))
          [] o = "panic" -> TaskEnds(TaskPanicked)
    /\ UNCHANGED <<mainVars, responses, config, addresses, cycleVars>>

\* get_validator_list(..).await.map_err(..)?, then the conversion
HGetValidatorListReturns ==
    /\ hpc = "get_validator_list"
    /\ \E o \in FetchOutcomes, validator_list \in SplValidatorLists :
        CASE o = "ok" -> TaskEnds(TaskOk(Serialized(validator_list)))
          [] o = "err" -> TaskEnds(TaskErr("Failed to fetch validator list"))
          [] o = "panic" -> TaskEnds(TaskPanicked)
    /\ UNCHANGED <<mainVars, responses, config, addresses, cycleVars>>

\* 500 for every task error: a second text for the panic is not kept
PanicBody_Generic == "Failed to fetch validator list"

\* Err(_) => HttpResponse::InternalServerError().body(..)
PanicBody == "Internal panic occurred"

\* match result { .. }: the response of the handler
Respond ==
    /\ hpc = "joined"
    /\ responses' = Append(responses,
          CASE h_result.kind = "ok" -> [status |-> 200, body |-> h_result.body]
            [] h_result.kind = "err" -> [status |-> 500, body |-> h_result.msg]
            [] h_result.kind = "panic" -> [status |-> 500, body |-> PanicBody])
    /\ hpc' = "idle"
    /\ UNCHANGED <<mainVars, h_result, config, addresses, cycleVars>>

\* ------------------------------------------------------------ specifications
\* every variable set, the process serving and the background task spawned
InitServing ==
    /\ env = [n \in EnvNames |->
                 [set |-> TRUE, v |-> IF n = "STAKE_POOL_ADDRESS" THEN addresses ELSE "value"]]
    /\ sp_config = get_config(env)
    /\ mpc = "serving"
    /\ worker = TRUE
    /\ hpc = "idle"
    /\ h_result = NoResult
    /\ responses = <<>>

InitCommon ==
    /\ idx = 0
    /\ w_stake_pool = 0
    /\ w_epoch_info = 0
    /\ outcome = "none"
    /\ cycle_result = "none"
    /\ upc = "off"
    /\ force = FALSE
    /\ no_merge = FALSE
    /\ stale_only = FALSE
    /\ u_stake_pool = 0
    /\ u_epoch_info = 0
    /\ update_list_instructions = <<>>
    /\ last_instruction = <<>>
    /\ final_instructions = <<>>
    /\ update_list_instructions_len = 0
    /\ u_result = "none"
    /\ bpc = "off"
    /\ b_input = <<>>
    /\ additional_fee = 0
    /\ instructions = <<>>
    /\ required_fee = 0
    /\ balance = 0
    /\ units_consumed = NoUnits
    /\ transaction = NoTx
    /\ err = NoErr
    /\ log = <<>>
    /\ notes = <<>>

\* the background task of main: the watcher with the Config it builds, from a
\* fee payer key that Keypair::from_base58_string accepts
Init ==
    /\ config = WatcherConfig
    /\ addresses \in AddressLists
    /\ wpc = "tick"
    /\ InitServing
    /\ InitCommon

Next ==
    \/ Tick
    \/ WLoopNext
    \/ WGetStakePoolReturns
    \/ WGetEpochInfoReturns
    \/ WSendRpcFailingReturns
    \/ WSendStartingReturns
    \/ WCommandUpdateReturns
    \/ WSendUpdateFailedReturns
    \/ UGetStakePoolReturns
    \/ UGetEpochInfoReturns
    \/ UGetValidatorListReturns
    \/ SendNoWaitReturns
    \/ SleepReturns
    \/ SendLastReturns
    \/ SendFinalReturns
    \/ GetLatestBlockhashReturns
    \/ GetFeeForMessageReturns
    \/ GetBalanceReturns

Spec == Init /\ [][Next]_vars

\* command_update called with any Config and any flags
InitUpdate ==
    /\ config \in Configs
    /\ addresses = <<>>
    /\ wpc = "harness"
    /\ InitServing
    /\ InitCommon

NextUpdate ==
    \/ HarnessCall
    \/ UGetStakePoolReturns
    \/ UGetEpochInfoReturns
    \/ UGetValidatorListReturns
    \/ SendNoWaitReturns
    \/ SleepReturns
    \/ SendLastReturns
    \/ SendFinalReturns
    \/ GetLatestBlockhashReturns
    \/ SimulateReturns
    \/ GetFeeForMessageReturns
    \/ GetBalanceReturns

SpecUpdate == InitUpdate /\ [][NextUpdate]_vars

\* main from its start, and the requests it serves
InitMain ==
    /\ env \in Envs
    /\ mpc = "get_config"
    /\ sp_config = NoStakePoolConfig
    /\ worker = FALSE
    /\ hpc = "idle"
    /\ h_result = NoResult
    /\ responses = <<>>
    /\ config = WatcherConfig
    /\ addresses = <<>>
    /\ wpc = "tick"
    /\ InitCommon

NextMain ==
    \/ LoadConfig
    \/ SpawnWorker
    \/ BindReturns
    \/ Request
    \/ HGetStakePoolReturns
    \/ HGetValidatorListReturns
    \/ Respond

SpecMain == InitMain /\ [][NextMain]_vars

\* -------------------------------------------------------------- properties
IsSend(e) == e.via \in {"send_transaction_no_wait", "send_transaction"}

\* the sends of the current update run, in the order they returned
Sends == SelectSeq(log, IsSend)

\* the list-update batch a transaction carries; 0 for the final instructions
BatchOf(ix) == IF Head(ix) = FinalInstr THEN 0 ELSE Head(ix).data[2]

SendModes == [i \in 1..Len(Sends) |-> <<Sends[i].via, BatchOf(Sends[i].ix)>>]

\* the sends of a whole plan of n list-update batches
ExpectedSends(n) ==
    [k \in 1..(n + 1) |->
        IF k < n THEN <<"send_transaction_no_wait", k>>
        ELSE IF k = n THEN <<"send_transaction", k>>
        ELSE <<"send_transaction", 0>>]

SendInFlight == upc \in {"send_no_wait", "send_last", "send_final"}

ReturnedOk == upc = "returned" /\ u_result = "ok"

\* C1: every list-update batch before the last one is sent through
\* send_transaction_no_wait (live: the transport's send_transaction), the last
\* list-update batch and the final instructions through send_transaction (live:
\* send_and_confirm), never the other way round; a run of a plan of n >= 1 batches
\* that returns Ok has issued exactly these n + 1 sends.
C1_SendModes ==
    LET n == update_list_instructions_len IN
    /\ \A i \in 1..Len(Sends) :
        LET e == Sends[i]
            k == BatchOf(e.ix)
        IN /\ (k >= 1 /\ k < n) =>
                 /\ e.via = "send_transaction_no_wait"
                 /\ ~config.dry_run => e.op = "send_transaction"
           /\ (k = n \/ k = 0) =>
                 /\ e.via = "send_transaction"
                 /\ ~config.dry_run => e.op = "send_and_confirm_transaction_with_spinner"
    /\ (ReturnedOk /\ n >= 1) => SendModes = ExpectedSends(n)

C1_Witness ==
    /\ ReturnedOk
    /\ ~config.dry_run
    /\ update_list_instructions_len >= 2
    /\ Len(Sends) = update_list_instructions_len + 1

\* C2: a send is issued only when every earlier send of the plan has returned
\* Ok: batch k goes out after batches 1..k-1, the final instructions after all
\* n batches, the n-th of them confirmed.
C2_Sequential ==
    LET n == update_list_instructions_len IN
    /\ \A i \in 1..Len(Sends) :
        /\ i <= n + 1
        /\ BatchOf(Sends[i].ix) = (IF i <= n THEN i ELSE 0)
        /\ i < Len(Sends) => Sends[i].ok
    /\ SendInFlight =>
        LET k == BatchOf(transaction.instructions) IN
        /\ \A i \in 1..Len(Sends) : Sends[i].ok
        /\ Len(Sends) = (IF k = 0 THEN n ELSE k - 1)
        /\ (k = 0 /\ n >= 1) =>
              Sends[n].op = "send_and_confirm_transaction_with_spinner"

C2_Witness ==
    /\ upc = "send_final"
    /\ update_list_instructions_len = 2
    /\ Len(Sends) = 2

WatcherFetchedBoth == wpc \in {"iter_end", "send_starting", "command_update", "send_update_failed"}

\* C3: when the pool the watcher fetched has last_update_epoch equal to the
\* epoch it fetched, the iteration for that address ends with no transport
\* call of an update run and no notification.
C3_UnchangedIsNoOp ==
    (WatcherFetchedBoth /\ w_stake_pool = w_epoch_info) =>
        /\ wpc = "iter_end"
        /\ outcome = "unchanged"
        /\ log = <<>>
        /\ notes = <<>>
        /\ upc = "off"
        /\ bpc = "off"

C3_Witness ==
    /\ wpc = "iter_end"
    /\ outcome = "unchanged"
    /\ idx = 2
    /\ w_stake_pool = 1
    /\ w_epoch_info = 1

BalanceJustChecked ==
    /\ log # <<>>
    /\ log[Len(log)].op = "get_balance"
    /\ log[Len(log)].ok

\* C4: a transaction is signed, and a send is issued, only after the balance
\* check passed for it; a fetched balance below required fee + additional fee
\* makes the builder return the insufficient-balance error with both amounts
\* and nothing is signed or sent; an equal balance passes.
C4_BalanceChecked ==
    LET required == saturating_add(additional_fee, required_fee) IN
    /\ transaction.signed => balance >= required
    /\ SendInFlight => transaction.signed
    /\ (BalanceJustChecked /\ balance < required) =>
        /\ upc = "returned"
        /\ u_result = "err"
        /\ err = [kind |-> "insufficient balance", required |-> required,
                  available |-> balance]
        /\ ~transaction.signed
    /\ (BalanceJustChecked /\ balance >= required) =>
        /\ transaction.signed
        /\ SendInFlight
        /\ err = NoErr
    /\ err.kind = "insufficient balance" =>
        \A i \in 1..Len(Sends) : Head(Sends[i].ix) # Head(b_input)
    /\ \A i \in 1..Len(log) :
        IsSend(log[i]) =>
            /\ i > 1
            /\ log[i - 1].op = "get_balance"
            /\ log[i - 1].ok
            /\ Head(log[i - 1].ix) = Head(log[i].ix)

C4_Witness ==
    /\ err.kind = "insufficient balance"
    /\ err.required = 2
    /\ err.available = 1
    /\ upc = "returned"

\* C5: when a cycle has returned, every configured address has been examined.
C5_EveryAddressExamined ==
    (wpc = "tick" /\ cycle_result # "none") => idx = Len(addresses)

\* C6: after a failing epoch-info fetch the watcher sends one failure
\* notification and, that notification delivered, goes on to the next
\* configured address: the cycle does not return an error, and it returns
\* only when every address has been examined.
C6_RpcFailingProceeds ==
    outcome = "rpc_failing" =>
        /\ Len(notes) = 1
        /\ notes[1].ok =>
            /\ cycle_result # "err"
            /\ wpc = "tick" => idx = Len(addresses)

\* C7: a "starting" notification that could not be sent does not end the
\* cycle: the update run for the pool is executed and the cycle goes on.
C7_StartingBestEffort ==
    (notes # <<>> /\ notes[1] = Note("starting", FALSE)) =>
        /\ cycle_result # "err"
        /\ \/ wpc \in {"command_update", "send_update_failed", "iter_end"}
           \/ wpc = "tick" /\ outcome \in {"updated", "update_failed"}

NotesOf(msg) == SelectSeq(notes, LAMBDA x : x.msg = msg)

\* C8: an update run that returned Ok leaves exactly one "starting" and exactly
\* one "success" notification for the pool, and no failure notification.
C8_StartingAndSuccess ==
    (wpc \in {"iter_end", "tick"} /\ outcome = "updated") =>
        /\ Len(NotesOf("starting")) = 1
        /\ Len(NotesOf("success")) = 1
        /\ Len(NotesOf("update_failed")) = 0
        /\ Len(NotesOf("rpc_failing")) = 0

\* C9: a transport call of the plan that failed is the last thing the run did:
\* nothing is built or sent after it, it is not repeated, and command_update
\* has returned Err; the same holds for every error of the builder.
C9_AbortOnFailure ==
    /\ \A i \in 1..Len(log) :
        ~log[i].ok =>
            /\ i = Len(log)
            /\ upc = "returned"
            /\ u_result = "err"
            /\ err # NoErr
    /\ err # NoErr =>
        /\ upc = "returned"
        /\ u_result = "err"
        /\ bpc = "off"
        /\ ~transaction.signed
    /\ u_result = "err" =>
        \A i \in 1..Len(Sends) : ~(BatchOf(Sends[i].ix) = 0 /\ Sends[i].ok)

C9_Witness ==
    /\ upc = "returned"
    /\ u_result = "err"
    /\ update_list_instructions_len = 2
    /\ Len(Sends) = 1
    /\ ~Sends[1].ok
    /\ BatchOf(Sends[1].ix) = 1

\* the steps of the pipeline: the sends with their batch, and the sleeps
IsStep(e) == IsSend(e) \/ e.op = "sleep"

Steps ==
    LET st == SelectSeq(log, IsStep)
    IN [i \in 1..Len(st) |->
           IF st[i].op = "sleep" THEN <<"sleep", 0>>
           ELSE <<st[i].via, BatchOf(st[i].ix)>>]

RECURSIVE ExpectedSteps(_, _)
ExpectedSteps(k, n) ==
    IF k > n THEN <<<<"send_transaction", 0>>>>
    ELSE IF k = n THEN <<<<"send_transaction", k>>>> \o ExpectedSteps(k + 1, n)
    ELSE <<<<"send_transaction_no_wait", k>>, <<"sleep", 0>>>> \o ExpectedSteps(k + 1, n)

\* C10: with dry_run set no transport send or send-and-confirm is ever called,
\* every send of the pipeline is a simulate_transaction call, and a run that
\* returns Ok has made the same steps, in the same order, as a live run.
C10_DryRunSimulates ==
    /\ config.dry_run =>
        /\ \A i \in 1..Len(log) :
            log[i].op \notin {"send_transaction",
                              "send_and_confirm_transaction_with_spinner"}
        /\ \A i \in 1..Len(Sends) : Sends[i].op = "simulate_transaction"
    /\ (ReturnedOk /\ final_instructions # <<>>) =>
        Steps = ExpectedSteps(1, update_list_instructions_len)

C10_Witness ==
    /\ config.dry_run
    /\ ReturnedOk
    /\ update_list_instructions_len = 2
    /\ Len(Sends) = 3


Simulated == config.compute_unit_limit.kind = "Simulated"

Corrected == Simulated /\ bpc \in {"get_fee_for_message", "get_balance"}

IsLimitInstr(i) == i.program_id = "ComputeBudget" /\ Len(i.data) = 5 /\ i.data[1] = 2

\* the instructions before the correction: the caller's, the price if one is
\* configured, and the provisional limit
CountBeforeCorrection ==
    Len(b_input) + (IF config.compute_unit_price.some THEN 1 ELSE 0) + 1

\* C11: under Simulated the limit instruction is the last one; after the
\* correction it carries exactly the units_consumed the simulation returned;
\* the correction changes no other instruction and not the number of
\* instructions; once corrected the instructions are not written again.
C11_SimulatedLimit ==
    /\ [](Simulated /\ bpc = "simulate_transaction" =>
            /\ Len(instructions) = CountBeforeCorrection
            /\ instructions[Len(instructions)] =
                   set_compute_unit_limit(MAX_COMPUTE_UNIT_LIMIT))
    /\ [](Corrected =>
            /\ Len(instructions) = CountBeforeCorrection
            /\ IsLimitInstr(instructions[Len(instructions)])
            /\ units_consumed.hi = 0
            /\ FromLeBytes(Tail(instructions[Len(instructions)].data)) = units_consumed.lo
            /\ \A i \in 1..(Len(instructions) - 1) : ~IsLimitInstr(instructions[i]))
    /\ [][(Simulated /\ bpc = "simulate_transaction" /\ bpc' = "get_fee_for_message") =>
            /\ Len(instructions') = Len(instructions)
            /\ SubSeq(instructions', 1, Len(instructions) - 1) =
                   SubSeq(instructions, 1, Len(instructions) - 1)]_vars
    /\ [][Corrected => instructions' = instructions]_vars
    /\ []((Simulated /\ transaction.signed) => transaction.instructions = instructions)

C11_Witness ==
    /\ Corrected
    /\ units_consumed = [hi |-> 0, lo |-> 200000]
    /\ config.compute_unit_price.some
    /\ Len(instructions) = 3

\* a step that calls set_config_and_update and runs it to its first await or,
\* with no address or an address that does not parse, to its return
CycleBegins ==
    \/ wpc' = "get_stake_pool" /\ idx' = 1
    \/ wpc' = "tick" /\ cycle_result' = "ok" /\ addresses = <<>>
    \/ wpc' = "tick" /\ cycle_result' = "err" /\ idx' = 1 /\ outcome' = "error"

Answered == mpc = "serving" /\ hpc = "idle" /\ h_result.kind # "none"

SnapshotBodies == {Serialized(v) : v \in SplValidatorLists}

\* a request has at most one response, none before the task has ended and
\* exactly one once the handler has returned; a 200 carries the converted
\* validator list, a 500 one of `texts`; a panic of the task is answered with
\* 500 "Internal panic occurred"
AnsweredWithin(texts) ==
    /\ Len(responses) <= 1
    /\ hpc # "idle" => responses = <<>>
    /\ hpc = "joined" => ENABLED Respond
    /\ Answered =>
        /\ Len(responses) = 1
        /\ \/ /\ responses[1].status = 200
              /\ h_result.kind = "ok"
              /\ responses[1].body \in SnapshotBodies
           \/ /\ responses[1].status = 500
              /\ h_result.kind # "ok"
              /\ responses[1].body \in texts
        /\ h_result.kind = "panic" =>
              responses[1] = [status |-> 500, body |-> "Internal panic occurred"]

FourTexts ==
    {"Failed to fetch stake pool", "Failed to fetch validator list",
     "No stake pool addresses configured", "Internal panic occurred"}

\* C13 as stated: every GET /validators gets exactly one response, a 200 with
\* the converted validator list or a 500 whose body is one of exactly four
\* texts; a panic in the handler's work yields 500 "Internal panic occurred".
C13_FourTexts == AnsweredWithin(FourTexts)

\* C13, amended: the same with a fifth text, "Invalid stake pool address",
\* for a first configured address that does not parse.
C13_FiveTexts == AnsweredWithin(FourTexts \cup {"Invalid stake pool address"})

C13_Witness ==
    /\ Answered
    /\ responses = <<[status |-> 500, body |-> "Invalid stake pool address"]>>

RequiredNames == {"RPC_URL", "FEE_PAYER_PRIVATE_KEY", "STAKE_POOL_ADDRESS", "SLACK_CHANNEL_ID"}

\* C14: with a required variable missing, loading the configuration fails and
\* the process does not start: the background task is never spawned, the
\* server never serves and no request is answered.
C14_MissingVariableIsFatal ==
    (\E n \in RequiredNames : ~env[n].set) =>
        /\ ~worker
        /\ mpc # "serving"
        /\ responses = <<>>

\* a cycle is in progress: set_config_and_update has been called and has not
\* returned
CycleRunning == wpc # "tick"

\* C15 as stated: the scheduler does not wait for the previous cycle, so a tick
\* can start a new cycle while a cycle is still running.
C15_TickWhileRunning == CycleRunning => ENABLED Tick

\* C15, amended: the background task awaits the cycle before it awaits the
\* next tick, so a tick is delivered only when no cycle is running and a cycle
\* begins only from there: two cycles are never in progress at once.
C15_NoOverlap ==
    /\ [](CycleRunning => ~ENABLED Tick)
    /\ [][(wpc' = "get_stake_pool" /\ idx' = 1) => ~CycleRunning]_vars

C15_Witness ==
    /\ CycleRunning
    /\ upc = "sleep"
    /\ idx = 1
    /\ Len(addresses) = 2

\* the iteration of the current address is over: its outcome is decided, its
\* update run (if any) has returned and its notifications are made
IterationOver ==
    /\ wpc = "iter_end"
    /\ upc = "off" /\ bpc = "off"
    /\ outcome \in {"unchanged", "updated", "update_failed"}
    /\ outcome = "updated" =>
          /\ u_result = "ok"
          /\ update_list_instructions_len >= 1 =>
                SendModes = ExpectedSends(update_list_instructions_len)
    /\ outcome = "update_failed" =>
          /\ u_result = "err"
          /\ NotesOf("update_failed") # <<>>

\* C16: within a cycle the addresses are taken one at a time in the configured
\* order: the position moves only from the end of an iteration, whose update
\* run and notification are finished, and then to the next address; a cycle
\* starts at the first; an update run or a builder call is only ever in
\* progress for the address at the current position.
C16_OneAddressAtATime ==
    /\ [](idx \in 0..Len(addresses))
    /\ [](wpc \notin {"tick", "iter_end"} => idx \in 1..Len(addresses))
    /\ []((upc # "off" \/ bpc # "off") => wpc = "command_update")
    /\ [][idx' # idx =>
            \/ wpc = "tick" /\ idx' = 1
            \/ IterationOver /\ idx' = idx + 1]_vars
    /\ [][(wpc' = "get_stake_pool" /\ wpc # "get_stake_pool") =>
            \/ wpc = "tick" /\ idx' = 1
            \/ IterationOver /\ idx' = idx + 1]_vars

C16_Witness ==
    /\ idx = 2
    /\ addresses = <<"poolA", "poolB">>
    /\ wpc = "command_update"
    /\ upc = "send_final"

\* C17: when command_update returns an error the watcher attempts exactly one
\* failure notification; whether or not that notification could be sent, the
\* iteration ends normally: the watcher goes on to the next configured address,
\* and with no address left the cycle returns Ok.
C17_UpdateFailureIsReported ==
    /\ [](wpc = "send_update_failed" =>
            u_result = "err" /\ NotesOf("update_failed") = <<>>)
    /\ [](outcome = "update_failed" =>
            /\ u_result = "err"
            /\ Len(NotesOf("update_failed")) = 1
            /\ \/ wpc = "iter_end" /\ cycle_result = "none"
               \/ wpc = "tick" /\ cycle_result = "ok" /\ idx = Len(addresses))
    /\ [][(wpc = "command_update" /\ upc = "returned" /\ u_result = "err") =>
            wpc' = "send_update_failed" /\ notes' = notes]_vars
    /\ [][wpc = "send_update_failed" =>
            /\ wpc' = "iter_end"
            /\ Len(notes') = Len(notes) + 1
            /\ cycle_result' = cycle_result]_vars
    /\ [][(wpc = "iter_end" /\ outcome = "update_failed") =>
            IF idx < Len(addresses)
            THEN idx' = idx + 1
            ELSE wpc' = "tick" /\ cycle_result' = "ok"]_vars

C17_Witness ==
    /\ outcome = "update_failed"
    /\ notes = <<Note("starting", TRUE), Note("update_failed", FALSE)>>
    /\ wpc = "tick"
    /\ cycle_result = "ok"
    /\ idx = 2

\* awaits the builder still has before it returns
BuilderLeft ==
    CASE bpc = "off" -> 0
      [] bpc = "get_balance" -> 1
      [] bpc = "get_fee_for_message" -> 2
      [] bpc = "simulate_transaction" -> 3
      [] bpc = "get_latest_blockhash" -> 4

\* an upper bound of the awaits command_update still has before it returns
UpdateLeft ==
    LET r == Len(update_list_instructions) IN
    CASE upc \in {"off", "returned"} -> 0
      [] upc = "send_final" -> 1
      [] upc = "build_final" -> 1 + BuilderLeft
      [] upc = "send_last" -> 6
      [] upc = "build_last" -> 6 + BuilderLeft
      [] upc = "sleep" -> 6 * r + 5
      [] upc = "send_no_wait" -> 6 * r + 6
      [] upc = "build_list" -> 6 * r + 6 + BuilderLeft
      [] upc = "get_validator_list" -> 6 * MaxBatches + 11
      [] upc = "get_epoch_info" -> 6 * MaxBatches + 12
      [] upc = "get_stake_pool" -> 6 * MaxBatches + 13

UpdateLeftMax == 6 * MaxBatches + 13

\* an upper bound of the awaits the iteration for the current address still has
IterationLeft ==
    (UpdateLeftMax + 1) *
        (CASE wpc \in {"tick", "iter_end"} -> 0
           [] wpc = "send_update_failed" -> 1
           [] wpc = "command_update" -> 2
           [] wpc \in {"send_starting", "send_rpc_failing"} -> 3
           [] wpc = "get_epoch_info" -> 4
           [] wpc = "get_stake_pool" -> 5)
    + UpdateLeft

IterationLeftMax == 6 * (UpdateLeftMax + 1)

\* an upper bound of the awaits the running cycle still has before it returns
CycleLeft == (Len(addresses) - idx) * (IterationLeftMax + 1) + IterationLeft

\* C18: every cycle terminates when each collaborator call returns: while a
\* cycle is running some call is awaited whose return is a possible step, and
\* every step either returns the cycle to the tick or strictly lowers a
\* bounded count of the awaits that remain; no call is repeated without bound.
C18_CycleTerminates ==
    /\ [](CycleRunning => CycleLeft >= 0 /\ ENABLED Next)
    /\ [][CycleRunning => (wpc' = "tick" \/ CycleLeft' < CycleLeft)]_vars

C18_Witness ==
    /\ wpc = "tick"
    /\ cycle_result = "ok"
    /\ idx = 2
    /\ outcome = "updated"
    /\ update_list_instructions_len = 2
    /\ Len(log) = 13

IsSleep(e) == e.op = "sleep"

IsNoWaitSend(e) == e.via = "send_transaction_no_wait"

\* C19: after every no-wait send that succeeded the pacing delay is awaited,
\* and elapses, before the next transaction is built or sent; a delay follows
\* nothing else: not a send that waits for confirmation, and not a no-wait
\* send that failed, after which the run returns at once.
C19_PacingDelay ==
    /\ \A i \in 1..Len(log) :
        /\ (IsNoWaitSend(log[i]) /\ log[i].ok) =>
              IF i = Len(log) THEN upc = "sleep" /\ bpc = "off"
              ELSE IsSleep(log[i + 1])
        /\ (IsNoWaitSend(log[i]) /\ ~log[i].ok) =>
              i = Len(log) /\ upc = "returned" /\ u_result = "err"
        /\ IsSleep(log[i]) =>
              i > 1 /\ IsNoWaitSend(log[i - 1]) /\ log[i - 1].ok
    /\ upc = "sleep" =>
          /\ log # <<>>
          /\ IsNoWaitSend(log[Len(log)])
          /\ log[Len(log)].ok

C19_Witness ==
    /\ ReturnedOk
    /\ ~config.dry_run
    /\ update_list_instructions_len = 2
    /\ Len(SelectSeq(log, IsSleep)) = 1

IsPriceInstr(i) == i.program_id = "ComputeBudget" /\ Len(i.data) = 9 /\ i.data[1] = 3

\* `ix` is the caller's instructions, unchanged and in order, then the price
\* instruction if a price is configured, then the limit instruction unless
\* the policy is Default
BuilderShape(ix) ==
    LET n == Len(b_input)
        p == IF config.compute_unit_price.some THEN 1 ELSE 0
        l == IF config.compute_unit_limit.kind = "Default" THEN 0 ELSE 1
    IN /\ Len(ix) = n + p + l
       /\ SubSeq(ix, 1, n) = b_input
       /\ p = 1 =>
             /\ IsPriceInstr(ix[n + 1])
             /\ FromLeBytes(Tail(ix[n + 1].data)) = config.compute_unit_price.v
       /\ l = 1 => IsLimitInstr(ix[n + p + 1])
       /\ config.compute_unit_limit.kind = "Static" =>
             FromLeBytes(Tail(ix[n + p + 1].data)) = config.compute_unit_limit.n
       /\ \A i \in (n + 1)..Len(ix) :
             /\ IsPriceInstr(ix[i]) => (p = 1 /\ i = n + 1)
             /\ IsLimitInstr(ix[i]) => (l = 1 /\ i = n + p + 1)

Assembled == bpc \in {"simulate_transaction", "get_fee_for_message", "get_balance"}

\* C20: the builder appends the compute-budget instructions after the
\* caller's instructions in a fixed order: the price instruction if and only
\* if a price is configured, then no limit instruction under Default and
\* exactly one under Static(n) (carrying n) or Simulated; the message so has
\* len(input) + [price] + [policy # Default] instructions, the caller's first,
\* unchanged and in order; the signed transaction carries exactly these.
C20_BudgetInstructionsAppended ==
    /\ Assembled => BuilderShape(instructions)
    /\ transaction.signed =>
          /\ BuilderShape(transaction.instructions)
          /\ transaction.instructions = instructions

C20_Witness ==
    /\ transaction.signed
    /\ config.compute_unit_price.some
    /\ config.compute_unit_limit.kind = "Static"
    /\ Len(b_input) = 1
    /\ Len(transaction.instructions) = 3

IsBuilderCall(e) == e.via = "builder"

BuilderOps ==
    {"get_latest_blockhash", "simulate_transaction", "get_fee_for_message", "get_balance"}

\* the builder call that comes right before `op` in a build; "" for the first
BuilderOpBefore(op) ==
    CASE op = "get_latest_blockhash" -> ""
      [] op = "simulate_transaction" -> "get_latest_blockhash"
      [] op = "get_fee_for_message" ->
            IF Simulated THEN "simulate_transaction" ELSE "get_latest_blockhash"
      [] op = "get_balance" -> "get_fee_for_message"

BuildFailed == upc = "returned" /\ u_result = "err" /\ bpc = "off" /\ ~transaction.signed

\* C21: the builder never sends: a build makes only the calls blockhash fetch,
\* simulation (under Simulated only), fee estimate and balance lookup, each
\* after the one before it has succeeded; a send is issued only on a
\* transaction a complete build has signed; when a call of the build fails, or
\* the simulation reports no units_consumed, the run returns the error, no
\* transaction is signed and no send follows.
C21_BuilderNeverSends ==
    /\ \A i \in 1..Len(log) :
        /\ IsBuilderCall(log[i]) =>
              /\ log[i].op \in BuilderOps
              /\ log[i].op = "simulate_transaction" => Simulated
              /\ IF log[i].op = "get_latest_blockhash"
                 THEN i = 1 \/ ~IsBuilderCall(log[i - 1])
                 ELSE /\ i > 1
                      /\ IsBuilderCall(log[i - 1])
                      /\ log[i - 1].op = BuilderOpBefore(log[i].op)
                      /\ log[i - 1].ok
              /\ ~log[i].ok => i = Len(log) /\ BuildFailed
        /\ IsSend(log[i]) =>
              /\ i > 1
              /\ IsBuilderCall(log[i - 1])
              /\ log[i - 1].op = "get_balance"
              /\ log[i - 1].ok
              /\ SubSeq(log[i].ix, 1, Len(log[i - 1].ix)) = log[i - 1].ix
    /\ bpc # "off" => ~transaction.signed /\ ~SendInFlight
    /\ transaction.signed => SendInFlight /\ bpc = "off"
    /\ err.kind \in {"No units consumed on simulation",
                     "Failed to simulate transaction for compute unit limit",
                     "Failed to get latest blockhash",
                     "Failed to fetch fee for transaction message",
                     "get_balance failed"} =>
          /\ BuildFailed
          /\ IsBuilderCall(log[Len(log)])

C21_Witness ==
    /\ err.kind = "No units consumed on simulation"
    /\ BuildFailed
    /\ Len(Sends) = 1
    /\ log[Len(log)].op = "simulate_transaction"

\* the update run the watcher started has fetched the pool and the epoch
\* itself and found them equal
RefetchShowsUnchanged ==
    /\ wpc = "command_update"
    /\ upc \notin {"off", "get_stake_pool", "get_epoch_info"}
    /\ u_stake_pool = u_epoch_info

\* C22: the watcher calls the update run with force set, so the run's own
\* comparison never makes it a no-op: a run whose own fetches show
\* last_update_epoch equal to the epoch goes on to fetch the validator list and
\* to build and send; it returns Ok only after the whole plan has been sent.
C22_WatcherForces ==
    /\ wpc = "command_update" => force /\ ~no_merge /\ ~stale_only
    /\ (RefetchShowsUnchanged /\ upc = "returned" /\ Sends = <<>>) => u_result = "err"
    /\ (wpc = "command_update" /\ ReturnedOk) =>
          /\ final_instructions # <<>>
          /\ Len(Sends) = update_list_instructions_len + 1
          /\ \A i \in 1..Len(Sends) : Sends[i].ok

C22_Witness ==
    /\ RefetchShowsUnchanged
    /\ w_stake_pool # w_epoch_info
    /\ ReturnedOk
    /\ Len(Sends) = 3

\* the update run has computed its plan
Planned == final_instructions # <<>>

\* C23: a run that returns Ok after planning has issued exactly n + 1
\* transactions for its n list-update instructions: the k-th carries exactly
\* the k-th list-update instruction and nothing else of the plan, the last one
\* the final instructions; with n = 0 that is one transaction, the final
\* instructions sent with send_transaction (waiting for confirmation), with no
\* no-wait send and no pacing delay.
C23_OneTransactionPerBatch ==
    LET n == update_list_instructions_len IN
    /\ \A i \in 1..Len(Sends) :
        /\ i <= n + 1
        /\ SubSeq(Sends[i].ix, 1, 1) =
              (IF i <= n THEN <<UpdateListInstr(i)>> ELSE final_instructions)
        /\ \A j \in 2..Len(Sends[i].ix) : Sends[i].ix[j].program_id = "ComputeBudget"
    /\ (ReturnedOk /\ Planned) =>
        /\ Len(Sends) = n + 1
        /\ n = 0 =>
              /\ Sends[1].via = "send_transaction"
              /\ ~config.dry_run =>
                    Sends[1].op = "send_and_confirm_transaction_with_spinner"
              /\ \A i \in 1..Len(log) : ~IsSleep(log[i]) /\ ~IsNoWaitSend(log[i])

C23_Witness ==
    /\ ReturnedOk
    /\ Planned
    /\ update_list_instructions_len = 0
    /\ ~config.dry_run
    /\ Len(Sends) = 1

UnitsOverflow == units_consumed.hi # 0

\* the build in progress has ended at its simulation, whose transport call
\* succeeded
BuildEndedAtSimulation ==
    /\ bpc = "off"
    /\ log # <<>>
    /\ IsBuilderCall(log[Len(log)])
    /\ log[Len(log)].op = "simulate_transaction"
    /\ log[Len(log)].ok

\* C24: under Simulated a units_consumed that does not fit a u32 makes the
\* build fail with the conversion error: the limit instruction keeps its
\* provisional value and is never written with the value modulo 2^32, no
\* transaction is signed, and the simulation is the last transport call of the
\* run, so nothing is sent. A limit is only ever written from a value that fits.
C24_NoTruncatedLimit ==
    /\ UnitsOverflow => bpc = "off" /\ ~transaction.signed /\ ~SendInFlight
    /\ BuildEndedAtSimulation =>
        /\ Simulated
        /\ BuildFailed
        /\ UnitsOverflow <=> err.kind = "TryFromIntError"
        /\ UnitsOverflow =>
              /\ instructions[Len(instructions)] =
                     set_compute_unit_limit(MAX_COMPUTE_UNIT_LIMIT)
              /\ FromLeBytes(Tail(instructions[Len(instructions)].data)) #
                     units_consumed.lo
    /\ Corrected => ~UnitsOverflow

C24_Witness ==
    /\ BuildEndedAtSimulation
    /\ UnitsOverflow
    /\ units_consumed = [hi |-> 1, lo |-> 200000]
    /\ BuildFailed
    /\ Len(Sends) = 2

=============================================================================
